---- MODULE Spec2Model ----
(***************************************************************************)
(* Model of bosun's search index (cmd/bosun/search over the redis-backed   *)
(* database.DataAccess): Search.Index, Search.GetLast, Search.Expand,      *)
(* Match and the lookup accessors.                                         *)
(*                                                                         *)
(* Go strings are modelled as sequences of one-character strings, so that  *)
(* splitting, trimming, pattern translation and byte-wise sorting are      *)
(* computed and not assumed.  float64 values are modelled as normalised    *)
(* fractions [n, d]; time is in whole seconds, as time.Now().Unix() is.    *)
(***************************************************************************)
EXTENDS Integers, Sequences, FiniteSets, TLC

----------------------------------------------------------------------------
(* Bounds of the model *)

\* wall-clock second at which the engine is constructed
StartTime == 1000
\* how many seconds beyond one throttle window the clock may run
MaxDrift == 1
\* total number of data points handed to Index over a run
MaxPoints == 3
\* cap on the reader count of the RWMutex
MaxReaders == 1

\* longest input handed to lex, in runes
MaxInput == 3

\* calls one goroutine makes
MaxCalls == 2

\* longest list of candidates handed to Match
MaxCandidates == 3

----------------------------------------------------------------------------
(* Strings *)

\* byte value of the characters the model uses (sort.Strings is byte-wise)
Ord(c) ==
    CASE c = " " -> 32 [] c = "(" -> 40 [] c = "*" -> 42 [] c = "," -> 44
      [] c = "." -> 46 [] c = "1" -> 49 [] c = "2" -> 50 [] c = ":" -> 58
      [] c = "=" -> 61 [] c = "a" -> 97 [] c = "b" -> 98 [] c = "c" -> 99
      [] c = "d" -> 100 [] c = "e" -> 101 [] c = "h" -> 104 [] c = "m" -> 109
      [] c = "o" -> 111 [] c = "p" -> 112 [] c = "s" -> 115 [] c = "t" -> 116
      [] c = "u" -> 117 [] c = "x" -> 120 [] c = "{" -> 123 [] c = "|" -> 124
      [] c = "}" -> 125 [] c = "_" -> 95

\* Go's < on strings: lexicographic on bytes
RECURSIVE StrLess(_, _)
StrLess(s, t) ==
    IF t = <<>> THEN FALSE
    ELSE IF s = <<>> THEN TRUE
    ELSE IF Head(s) = Head(t) THEN StrLess(Tail(s), Tail(t))
    ELSE Ord(Head(s)) < Ord(Head(t))

\* the elements of S left in an order sort.Strings would not give: the last first
RECURSIVE SortStrings_Descending(_)
SortStrings_Descending(S) ==
    IF S = {} THEN <<>>
    ELSE LET m == CHOOSE x \in S : \A y \in S \ {x} : StrLess(y, x)
         IN <<m>> \o SortStrings_Descending(S \ {m})

\* sort.Strings applied to the elements of a finite set of strings
RECURSIVE SortStrings(_)
SortStrings(S) ==
    IF S = {} THEN <<>>
    ELSE LET m == CHOOSE x \in S : \A y \in S \ {x} : StrLess(x, y)
         IN <<m>> \o SortStrings(S \ {m})

\* strings.Join
RECURSIVE Join(_, _)
Join(ss, sep) ==
    IF ss = <<>> THEN <<>>
    ELSE IF Len(ss) = 1 THEN ss[1]
    ELSE ss[1] \o sep \o Join(Tail(ss), sep)

Range(f) == { f[i] : i \in DOMAIN f }

cpu  == <<"c", "p", "u">>
mem  == <<"m", "e", "m">>
host == <<"h", "o", "s", "t">>
dc   == <<"d", "c">>
a1   == <<"a", "1">>
a2   == <<"a", "2">>
b1   == <<"b", "1">>
ax   == <<"a", "x">>

\* database.Search_All, the metric name that stands for "all metrics"
Search_All == <<"_", "_", "a", "l", "l", "_", "_">>

----------------------------------------------------------------------------
(* float64 *)

Abs(n) == IF n < 0 THEN -n ELSE n

RECURSIVE GCD(_, _)
GCD(a, b) == IF b = 0 THEN a ELSE GCD(b, a % b)

\* the value n/d, d # 0, in lowest terms with a positive denominator
Frac(n, d) ==
    LET g == GCD(Abs(n), Abs(d))
        s == IF d < 0 THEN -1 ELSE 1
    IN  [n |-> (s * n) \div g, d |-> (s * d) \div g]

\* float64(i) of an integer
Float(i) == Frac(i, 1)

FSub(x, y) == Frac(x.n * y.d - y.n * x.d, x.d * y.d)

\* x / y for y # 0
FDiv(x, y) == Frac(x.n * y.d, x.d * y.n)

----------------------------------------------------------------------------
(* Data points *)

\* a point value that reflect cannot convert to float64 (a string)
NonNumeric == [kind |-> "string", v |-> 0]

Num(i) == [kind |-> "int", v |-> i]

\* getFloat: the float64 of a convertible value, an error otherwise
getFloat(unk) ==
    IF unk.kind \notin {"int", "float"}
    THEN [fv |-> Float(0), err |-> "cannot convert"]
    ELSE [fv |-> Float(unk.v), err |-> "nil"]

\* opentsdb.TagSet.String: "{k=v,...}" with the tag keys in sorted order
TagsString(tags) ==
    LET ks == SortStrings(DOMAIN tags)
    IN  <<"{">> \o Join([i \in 1..Len(ks) |-> ks[i] \o <<"=">> \o tags[ks[i]]], <<",">>)
        \o <<"}">>

\* the key of the per-series maps: metric + dp.Tags.String()
SeriesKey(metric, tags) == metric \o TagsString(tags)

----------------------------------------------------------------------------
(* The redis store behind database.DataAccess: key -> hash (field -> time) *)

searchMetricKey(tagK, tagV) == <<"search:metrics:">> \o tagK \o <<"=">> \o tagV
searchTagkKey(metric) == <<"search:tagk:">> \o metric
searchTagvKey(metric, tagK) == <<"search:tagv:">> \o metric \o <<":">> \o tagK
searchAllMetricsKey == <<"search:allMetrics">>

\* HSET key field value
HSET(r, key, field, value) ==
    LET h == IF key \in DOMAIN r THEN r[key] ELSE << >>
        h1 == [f \in DOMAIN h \cup {field} |-> IF f = field THEN value ELSE h[f]]
    IN  [k \in DOMAIN r \cup {key} |-> IF k = key THEN h1 ELSE r[k]]

\* HGETALL key: the flat reply field1, value1, field2, value2, ...
RECURSIVE Flatten(_, _)
Flatten(h, fields) ==
    IF fields = {} THEN <<>>
    ELSE LET f == CHOOSE x \in fields : TRUE
         IN <<f, h[f]>> \o Flatten(h, fields \ {f})

HGETALL(r, key) == IF key \in DOMAIN r THEN Flatten(r[key], DOMAIN r[key]) ELSE <<>>

\* stringInt64Map: the reply as a map, or the store's error
stringInt64Map(d, err) ==
    IF err # "nil" THEN [result |-> << >>, err |-> err]
    ELSE LET idx == { i \in 2..Len(d) : i % 2 = 0 }
         IN [result |-> [f \in { d[i - 1] : i \in idx } |->
                            d[CHOOSE i \in idx : d[i - 1] = f]],
             err |-> "nil"]

----------------------------------------------------------------------------
(* The engine *)

VARIABLES
    clock,            \* time.Now().Unix()
    Last,             \* Search.Last: series key -> lastInfo
    updateTimes,      \* Search.updateTimes: series key -> time of the last index write
    rwReaders,        \* Search.RWMutex: read locks currently held
    rwWriterWaiting,  \* Search.RWMutex: a Lock() call is blocked, which blocks new readers
    rwWriter,         \* Search.RWMutex: the write lock is held
    redis,            \* the store: key -> hash
    npoints,          \* data points handed to Index so far
    call,             \* the last call made on the engine: arguments and outcome
    goroutines,       \* the goroutines that run calls step by step: where each one is
    lexer             \* conf: the lexer made by lex, its channel and the items received

vars == <<clock, Last, updateTimes, rwReaders, rwWriterWaiting, rwWriter, redis, npoints,
         call, goroutines, lexer>>

\* the update window of Index: "update max every 10 minutes per metric/tagset"
Window == 10 * 60

MaxClock == StartTime + Window + MaxDrift

\* &lastInfo{}
ZeroInfo == [lastVal |-> Float(0), diffFromPrev |-> Float(0), timestamp |-> 0]

\* the fields read through p := s.Last[key] once p is made non-nil (lines 172-176)
LastOf(last, key) == IF key \in DOMAIN last THEN last[key] ELSE ZeroInfo

\* the goroutines that call the engine concurrently
Goroutines == {"g1", "g2"}

\* a goroutine outside any call.  pc is the line of the source the goroutine
\* is at; readHeld counts the read locks the running call has taken and not
\* released, leaked those a returned call has left behind, writeHeld tells
\* whether it holds the write lock; sets counts the sets of store writes it
\* has issued.
Idle == [pc |-> "idle", now |-> 0, needUpdate |-> FALSE, readHeld |-> 0, leaked |-> 0,
         writeHeld |-> FALSE, calls |-> 0, sets |-> 0]

\* conf: no lexer has been made yet
NoLexer == [state |-> "none"]

\* NewSearch
Init ==
    /\ clock = StartTime
    /\ Last = << >>
    /\ updateTimes = << >>
    /\ rwReaders = 0
    /\ rwWriterWaiting = FALSE
    /\ rwWriter = FALSE
    /\ redis = << >>
    /\ npoints = 0
    /\ call = [op |-> "NewSearch", returned |-> TRUE]
    /\ goroutines = [g \in Goroutines |-> Idle]
    /\ lexer = NoLexer

----------------------------------------------------------------------------
(* Search.Index *)

\* the names of the DataAccess write functions Index calls
WriteFns == {"Search_AddMetricForTag", "Search_AddTagKeyForMetric",
             "Search_AddTagValue", "Search_AddMetric"}

\* NeedUpdate with the window compared by >= : a record exactly one window old
\* would already count as expired
NeedUpdate_AtWindow(ut, key, now) ==
    \/ key \notin DOMAIN ut
    \/ now - ut[key] >= Window

\* lines 153-156: lastUpdate, ok := s.updateTimes[key]; !ok || now-lastUpdate > 10*60
NeedUpdate(ut, key, now) ==
    \/ key \notin DOMAIN ut
    \/ now - ut[key] > Window

Write(fn, key, field, now, failing) ==
    [fn |-> fn, key |-> key, field |-> field, time |-> now, failed |-> fn \in failing]

\* lines 163-167: the store calls made for one tag of a point, in program order
TagWrites(metric, k, v, now, failing) ==
    << Write("Search_AddMetricForTag", searchMetricKey(k, v), metric, now, failing),
       Write("Search_AddTagKeyForMetric", searchTagkKey(metric), k, now, failing),
       Write("Search_AddTagValue", searchTagvKey(metric, k), v, now, failing),
       Write("Search_AddTagValue", searchTagvKey(Search_All, k), v, now, failing),
       Write("Search_AddMetric", searchAllMetricsKey, metric, now, failing) >>

\* line 162: for k, v := range dp.Tags.  Go leaves the order of the tags open;
\* the writes of different tags go to different fields with the same time, so
\* the order does not show in the store and the sorted order is taken.
RECURSIVE PointWritesFrom(_, _, _, _, _)
PointWritesFrom(metric, tags, ks, now, failing) ==
    IF ks = <<>> THEN <<>>
    ELSE TagWrites(metric, Head(ks), tags[Head(ks)], now, failing)
         \o PointWritesFrom(metric, tags, Tail(ks), now, failing)

\* the store calls of a point if the first call that fails ended them
PointWrites_StopAtFailure(dp, now, failing) ==
    LET ws == PointWritesFrom(dp.Metric, dp.Tags, SortStrings(DOMAIN dp.Tags), now, failing)
        bad == { j \in DOMAIN ws : ws[j].failed }
    IN  IF bad = {} THEN ws
        ELSE SubSeq(ws, 1, CHOOSE j \in bad : \A i \in bad : j <= i)

PointWrites(dp, now, failing) ==
    PointWritesFrom(dp.Metric, dp.Tags, SortStrings(DOMAIN dp.Tags), now, failing)

\* the store after the calls ws: a call that fails writes nothing
RECURSIVE ApplyWrites(_, _)
ApplyWrites(r, ws) ==
    IF ws = <<>> THEN r
    ELSE LET w == Head(ws)
         IN ApplyWrites(IF w.failed THEN r ELSE HSET(r, w.key, w.field, w.time), Tail(ws))

\* UpdateInfo with the timestamp compared by <= : a point as old as the cached
\* one would replace it
UpdateInfo_NotStrict(p, dp) ==
    IF p.timestamp <= dp.Timestamp
    THEN LET f == getFloat(dp.Value)
             q == IF f.err = "nil"
                  THEN [p EXCEPT !.diffFromPrev =
                                    IF dp.Timestamp = p.timestamp THEN Float(0)
                                    ELSE FDiv(FSub(f.fv, p.lastVal),
                                              Float(dp.Timestamp - p.timestamp)),
                                 !.lastVal = f.fv]
                  ELSE p
         IN [q EXCEPT !.timestamp = dp.Timestamp]
    ELSE p

\* UpdateInfo without the timestamp test: the point indexed last wins
UpdateInfo_LastWins(p, dp) ==
    LET f == getFloat(dp.Value)
        q == IF f.err = "nil"
             THEN [p EXCEPT !.diffFromPrev =
                               IF dp.Timestamp = p.timestamp THEN Float(0)
                               ELSE FDiv(FSub(f.fv, p.lastVal),
                                         Float(dp.Timestamp - p.timestamp)),
                            !.lastVal = f.fv]
             ELSE p
    IN [q EXCEPT !.timestamp = dp.Timestamp]

\* UpdateInfo with the rate taken over the new timestamp alone
UpdateInfo_RateFromZero(p, dp) ==
    IF p.timestamp < dp.Timestamp
    THEN LET f == getFloat(dp.Value)
             q == IF f.err = "nil"
                  THEN [p EXCEPT !.diffFromPrev =
                                    FDiv(FSub(f.fv, p.lastVal), Float(dp.Timestamp)),
                                 !.lastVal = f.fv]
                  ELSE p
         IN [q EXCEPT !.timestamp = dp.Timestamp]
    ELSE p

\* lines 177-185 on the entry p
UpdateInfo(p, dp) ==
    IF p.timestamp < dp.Timestamp
    THEN LET f == getFloat(dp.Value)
             q == IF f.err = "nil"
                  THEN [p EXCEPT !.diffFromPrev =
                                    FDiv(FSub(f.fv, p.lastVal),
                                         Float(dp.Timestamp - p.timestamp)),
                                 !.lastVal = f.fv]
                  ELSE p
         IN [q EXCEPT !.timestamp = dp.Timestamp]
    ELSE p

\* lines 171-186: locate or create the entry of key, then update it
UpdateLast(last, key, dp) ==
    LET p == LastOf(last, key)
    IN  [k \in DOMAIN last \cup {key} |-> IF k = key THEN UpdateInfo(p, dp) ELSE last[k]]

\* lines 149-186: the body of the loop for one point.  st holds the maps, the
\* store and the record of what each point of the call did.
IndexPoint(st, dp, now, failing) ==
    LET key == SeriesKey(dp.Metric, dp.Tags)
        needUpdate == NeedUpdate(st.updateTimes, key, now)
        ws == IF needUpdate THEN PointWrites(dp, now, failing) ELSE <<>>
        ut == IF needUpdate
              THEN [k \in DOMAIN st.updateTimes \cup {key} |->
                       IF k = key THEN now ELSE st.updateTimes[k]]
              ELSE st.updateTimes
        last == UpdateLast(st.Last, key, dp)
    IN  [Last |-> last,
         updateTimes |-> ut,
         redis |-> ApplyWrites(st.redis, ws),
         trace |-> Append(st.trace,
                          [key |-> key,
                           ok |-> key \in DOMAIN st.updateTimes,
                           lastUpdate |-> IF key \in DOMAIN st.updateTimes
                                          THEN st.updateTimes[key] ELSE 0,
                           needUpdate |-> needUpdate,
                           updateTime |-> ut[key],
                           writes |-> ws,
                           cached |-> key \in DOMAIN st.Last,
                           before |-> LastOf(st.Last, key),
                           after |-> last[key]])]

\* line 148: for _, dp := range mdp
RECURSIVE IndexLoop(_, _, _, _)
IndexLoop(st, mdp, now, failing) ==
    IF mdp = <<>> THEN st
    ELSE IndexLoop(IndexPoint(st, Head(mdp), now, failing), Tail(mdp), now, failing)

\* whether some store call of the recorded points failed
AnyWriteFailed(trace) ==
    \E i \in DOMAIN trace : \E j \in DOMAIN trace[i].writes : trace[i].writes[j].failed

\* Search.Index(mdp) running to its end; the store functions in failing
\* return an error during the call.  Index has no result.
Index(mdp, failing) ==
    /\ npoints + Len(mdp) <= MaxPoints
    /\ mdp = <<>> \/ (rwReaders = 0 /\ ~rwWriterWaiting)
    /\ LET now == clock
           st == IndexLoop([Last |-> Last, updateTimes |-> updateTimes,
                            redis |-> redis, trace |-> <<>>], mdp, now, failing)
       IN /\ Last' = st.Last
          /\ updateTimes' = st.updateTimes
          /\ redis' = st.redis
          /\ call' = [op |-> "Index", mdp |-> mdp, now |-> now, returned |-> TRUE,
                      err |-> "none",
                      storeFailed |-> AnyWriteFailed(st.trace),
                      trace |-> st.trace]
    /\ npoints' = npoints + Len(mdp)
    /\ UNCHANGED <<clock, rwReaders, rwWriterWaiting, rwWriter, goroutines, lexer>>

\* Search.Index(mdp), mdp not empty, while a read lock is still held or a
\* writer is queued: the call stops at its first s.Lock() (lines 159, 171), or
\* at s.RLock() (line 152) behind a queued writer, before it has changed
\* anything, and does not return.
IndexBlocked ==
    /\ rwReaders > 0 \/ rwWriterWaiting
    /\ rwWriterWaiting' = TRUE
    /\ call' = [op |-> "Index", returned |-> FALSE]
    /\ UNCHANGED <<clock, Last, updateTimes, rwReaders, redis, npoints, rwWriter, goroutines,
                   lexer>>

----------------------------------------------------------------------------
(* Search.GetLast *)

\* GetLastValue with the two results exchanged
GetLastValue_Swapped(p, diff) == IF diff THEN p.lastVal ELSE p.diffFromPrev

\* lines 232-235: the value returned for the entry p
GetLastValue(p, diff) == IF diff THEN p.diffFromPrev ELSE p.lastVal

\* lines 228-239.  The two returns of the hit leave without s.RUnlock().
GetLast(metric, tags, diff) ==
    /\ ~rwWriterWaiting
    /\ LET p == LastOf(Last, metric \o tags)
       IN IF metric \o tags \in DOMAIN Last
          THEN /\ rwReaders < MaxReaders
               /\ rwReaders' = rwReaders + 1
               /\ call' = [op |-> "GetLast", metric |-> metric, tags |-> tags,
                           diff |-> diff, returned |-> TRUE,
                           v |-> GetLastValue(p, diff),
                           err |-> "nil"]
          ELSE /\ rwReaders' = rwReaders
               /\ call' = [op |-> "GetLast", metric |-> metric, tags |-> tags,
                           diff |-> diff, returned |-> TRUE,
                           v |-> Float(0), err |-> "nil"]
    /\ UNCHANGED <<clock, Last, updateTimes, rwWriterWaiting, redis, npoints, rwWriter, goroutines,
                   lexer>>

\* GetLast behind a queued writer: s.RLock() does not return
GetLastBlocked(metric, tags, diff) ==
    /\ rwWriterWaiting
    /\ call' = [op |-> "GetLast", metric |-> metric, tags |-> tags, diff |-> diff,
                returned |-> FALSE]
    /\ UNCHANGED <<clock, Last, updateTimes, rwReaders, rwWriterWaiting, redis, npoints, rwWriter, goroutines,
                   lexer>>

----------------------------------------------------------------------------
(* Time *)

Tick(d) ==
    /\ clock + d <= MaxClock
    /\ clock' = clock + d
    /\ UNCHANGED <<Last, updateTimes, rwReaders, rwWriterWaiting, redis, npoints, call, rwWriter, goroutines,
                   lexer>>

----------------------------------------------------------------------------
(* The last-value cache: points of every value and timestamp, and GetLast *)

TagSets == { << >>, [k \in {host} |-> a1] }

Values == { Num(2), Num(5), NonNumeric }

Timestamps == { 0, 1, 3 }

Point(metric, tags, value, timestamp) ==
    [Metric |-> metric, Tags |-> tags, Value |-> value, Timestamp |-> timestamp]

\* every value and timestamp on the series cpu{host=a1}, one point on cpu{}
Points ==
    [Metric : {cpu}, Tags : {[k \in {host} |-> a1]}, Value : Values, Timestamp : Timestamps]
    \cup { Point(cpu, << >>, Num(5), 1) }

\* the sequences over S of length 1 .. n
RECURSIVE SeqsUpTo(_, _)
SeqsUpTo(S, n) ==
    IF n <= 0 THEN {}
    ELSE {<<x>> : x \in S} \cup { <<x>> \o s : x \in S, s \in SeqsUpTo(S, n - 1) }

Batches(S) == {<<>>} \cup SeqsUpTo(S, MaxPoints - npoints)

GetLastTags == { TagsString(t) : t \in TagSets \cup {[k \in {host} |-> b1]} }

Next ==
    \/ \E mdp \in Batches(Points) : Index(mdp, {})
    \/ IndexBlocked
    \/ \E tags \in GetLastTags, diff \in BOOLEAN : GetLast(cpu, tags, diff)
    \/ \E tags \in GetLastTags, diff \in BOOLEAN : GetLastBlocked(cpu, tags, diff)

Spec == Init /\ [][Next]_vars

----------------------------------------------------------------------------
(* The throttle: a few points of two series while the clock runs up to and
   past one update window *)

ThrottlePoints ==
    { Point(cpu, [k \in {host} |-> a1], Num(2), 3),
      Point(cpu, [k \in {host} |-> a1], Num(5), 1),
      Point(cpu, [k \in {host} |-> a1], NonNumeric, 3),
      Point(cpu, << >>, Num(5), 1) }

TickSteps == { Window, Window + 1 }

NextThrottle ==
    \/ \E mdp \in Batches(ThrottlePoints) : Index(mdp, {})
    \/ \E d \in TickSteps : Tick(d)

SpecThrottle == Init /\ [][NextThrottle]_vars

----------------------------------------------------------------------------
(* Strings of the query path *)

\* strings.Split(s, sep) for a one-character separator; cur is the piece begun
RECURSIVE SplitFrom(_, _, _)
SplitFrom(s, sep, cur) ==
    IF s = <<>> THEN <<cur>>
    ELSE IF Head(s) = sep THEN <<cur>> \o SplitFrom(Tail(s), sep, <<>>)
    ELSE SplitFrom(Tail(s), sep, Append(cur, Head(s)))

Split(s, sep) == SplitFrom(s, sep, <<>>)

IsSpace(c) == c \in {" ", "\t", "\n", "\r"}

RECURSIVE TrimLeft(_)
TrimLeft(s) == IF s # <<>> /\ IsSpace(Head(s)) THEN TrimLeft(Tail(s)) ELSE s

RECURSIVE TrimRight(_)
TrimRight(s) ==
    IF s # <<>> /\ IsSpace(s[Len(s)]) THEN TrimRight(SubSeq(s, 1, Len(s) - 1)) ELSE s

\* strings.TrimSpace
TrimSpace(s) == TrimRight(TrimLeft(s))

\* strings.Contains(s, c) for a one-character c
Contains(s, c) == \E i \in DOMAIN s : s[i] = c

\* strings.Replace(s, old, new, -1) for a one-character old
RECURSIVE Replace(_, _, _)
Replace(s, old, new) ==
    IF s = <<>> THEN <<>>
    ELSE (IF Head(s) = old THEN new ELSE <<Head(s)>>) \o Replace(Tail(s), old, new)

----------------------------------------------------------------------------
(* regexp, for the expressions Match builds: literals, \c, ., x*, ^ and $.
   A parenthesis that is not closed is the syntax error; the strings of the
   model hold no closing parenthesis. *)

Atom(kind, c) == [kind |-> kind, c |-> c, star |-> FALSE]

\* the atoms of the expression v, read from the left; err once a syntax error is met
RECURSIVE Parse(_, _)
Parse(v, atoms) ==
    IF v = <<>> THEN [atoms |-> atoms, err |-> "nil"]
    ELSE LET c == Head(v)
         IN IF c = "(" THEN [atoms |-> <<>>, err |-> "missing closing )"]
            ELSE IF c = "\\"
            THEN IF Len(v) < 2 THEN [atoms |-> <<>>, err |-> "trailing backslash"]
                 ELSE Parse(Tail(Tail(v)), Append(atoms, Atom("lit", v[2])))
            ELSE IF c = "*"
            THEN IF atoms = <<>> \/ atoms[Len(atoms)].star
                 THEN [atoms |-> <<>>, err |-> "missing argument to repetition operator"]
                 ELSE Parse(Tail(v), [atoms EXCEPT ![Len(atoms)].star = TRUE])
            ELSE IF c = "." THEN Parse(Tail(v), Append(atoms, Atom("any", c)))
            ELSE IF c = "^" THEN Parse(Tail(v), Append(atoms, Atom("bol", c)))
            ELSE IF c = "$" THEN Parse(Tail(v), Append(atoms, Atom("eol", c)))
            ELSE Parse(Tail(v), Append(atoms, Atom("lit", c)))

\* regexp.Compile
Compile(v) == Parse(v, <<>>)

AtomMatches(a, c) ==
    \/ a.kind = "lit" /\ a.c = c
    \/ a.kind = "any" /\ c # "\n"

\* the atoms match s from position pos (characters before pos are consumed)
RECURSIVE MatchHere(_, _, _)
MatchHere(atoms, s, pos) ==
    IF atoms = <<>> THEN TRUE
    ELSE LET a == Head(atoms)
         IN IF a.kind = "bol" THEN pos = 0 /\ MatchHere(Tail(atoms), s, pos)
            ELSE IF a.kind = "eol" THEN pos = Len(s) /\ MatchHere(Tail(atoms), s, pos)
            ELSE IF a.star
            THEN \E n \in 0..(Len(s) - pos) :
                    /\ \A j \in 1..n : AtomMatches(a, s[pos + j])
                    /\ MatchHere(Tail(atoms), s, pos + n)
            ELSE /\ pos < Len(s)
                 /\ AtomMatches(a, s[pos + 1])
                 /\ MatchHere(Tail(atoms), s, pos + 1)

\* re.MatchString: the expression matches somewhere in s
MatchString(atoms, s) == \E pos \in 0..Len(s) : MatchHere(atoms, s, pos)

\* lines 214-219: the values the expression matches, in their order
RECURSIVE Matching(_, _)
Matching(atoms, values) ==
    IF values = <<>> THEN <<>>
    ELSE (IF MatchString(atoms, Head(values)) THEN <<Head(values)>> ELSE <<>>)
         \o Matching(atoms, Tail(values))

\* lines 207-209: the regular expression Match makes of search
Translate(search) ==
    <<"^">> \o Replace(Replace(search, ".", <<"\\", ".">>), "*", <<".", "*">>) \o <<"$">>

\* Match(search, values)
Match(search, values) ==
    LET re == Compile(Translate(search))
    IN  IF re.err # "nil" THEN [nvs |-> <<>>, err |-> re.err]
        ELSE [nvs |-> Matching(re.atoms, values), err |-> "nil"]

----------------------------------------------------------------------------
(* The lookups *)

\* the names of the DataAccess read functions
ReadFns == {"Search_GetAllMetrics", "Search_GetMetricsForTag",
            "Search_GetTagKeysForMetric", "Search_GetTagValues"}

\* a DataAccess read of the hash at key: the functions in failing return an error
StoreGet(r, key, fn, failing) ==
    stringInt64Map(HGETALL(r, key), IF fn \in failing THEN "store error" ELSE "nil")

\* line 324 with Recent_Strict: a value last seen exactly at t is left out
Recent_Strict(t, ts) == t < ts

\* line 324: if t <= ts
Recent(t, ts) == t <= ts

\* lines 313-330
TagValuesByMetricTagKey(r, now, metric, tagK, since, failing) ==
    LET t == IF since > 0 THEN now - since ELSE 0
        vals == StoreGet(r, searchTagvKey(metric, tagK), "Search_GetTagValues", failing)
    IN  IF vals.err # "nil" THEN [r |-> <<>>, err |-> vals.err]
        ELSE [r |-> SortStrings({ k \in DOMAIN vals.result : Recent(t, vals.result[k]) }),
              err |-> "nil"]

\* lines 283-285
TagValuesByTagKey(r, now, Tagk, since, failing) ==
    TagValuesByMetricTagKey(r, now, Search_All, Tagk, since, failing)

\* the sorted fields of a hash read, or the error of the read (lines 268-311)
SortedKeys(m) ==
    IF m.err # "nil" THEN [r |-> <<>>, err |-> m.err]
    ELSE [r |-> SortStrings(DOMAIN m.result), err |-> "nil"]

\* lines 268-281
UniqueMetrics(r, failing) ==
    SortedKeys(StoreGet(r, searchAllMetricsKey, "Search_GetAllMetrics", failing))

\* lines 287-298
MetricsByTagPair(r, tagk, tagv, failing) ==
    SortedKeys(StoreGet(r, searchMetricKey(tagk, tagv), "Search_GetMetricsForTag", failing))

\* lines 300-311
TagKeysByMetric(r, metric, failing) ==
    SortedKeys(StoreGet(r, searchTagkKey(metric), "Search_GetTagKeysForMetric", failing))

\* a lookup called on the engine; out is its result [r, err]
Lookup(op, args, out, failing) ==
    /\ call' = [op |-> op, args |-> args, now |-> clock, returned |-> TRUE,
                r |-> out.r, err |-> out.err, failing |-> failing]
    /\ UNCHANGED <<clock, Last, updateTimes, rwReaders, rwWriterWaiting, redis, npoints, rwWriter, goroutines,
                   lexer>>

CallTagValuesByMetricTagKey(metric, tagK, since, failing) ==
    Lookup("TagValuesByMetricTagKey", [metric |-> metric, tagK |-> tagK, since |-> since],
           TagValuesByMetricTagKey(redis, clock, metric, tagK, since, failing), failing)

CallTagValuesByTagKey(tagK, since, failing) ==
    Lookup("TagValuesByTagKey", [tagK |-> tagK, since |-> since],
           TagValuesByTagKey(redis, clock, tagK, since, failing), failing)

CallUniqueMetrics(failing) ==
    Lookup("UniqueMetrics", << >>, UniqueMetrics(redis, failing), failing)

CallMetricsByTagPair(tagk, tagv, failing) ==
    Lookup("MetricsByTagPair", [tagk |-> tagk, tagv |-> tagv],
           MetricsByTagPair(redis, tagk, tagv, failing), failing)

CallTagKeysByMetric(metric, failing) ==
    Lookup("TagKeysByMetric", [metric |-> metric],
           TagKeysByMetric(redis, metric, failing), failing)

----------------------------------------------------------------------------
(* Search.Expand *)

ExpandErr(kind, k, ov) == [kind |-> kind, k |-> k, ov |-> ov]

NoErr == ExpandErr("nil", <<>>, <<>>)

\* line 246 with only the second test: a lone * is expanded like a pattern
PassesThrough_NoStar(v) == ~Contains(v, "*")

\* line 246: v == "*" || !strings.Contains(v, "*")
PassesThrough(v) == v = <<"*">> \/ ~Contains(v, "*")

\* line 260 never true: an empty list is joined and stored
NoMatch_Never(nvs) == FALSE

\* line 260: len(nvs) == 0
NoMatch(nvs) == Len(nvs) = 0

\* lines 244-259: the alternatives alts of tag key k resolved after nvs
RECURSIVE ExpandAlts(_, _, _, _, _, _, _)
ExpandAlts(r, now, metric, k, alts, nvs, failing) ==
    IF alts = <<>> THEN [nvs |-> nvs, err |-> NoErr]
    ELSE LET v == TrimSpace(Head(alts))
         IN IF PassesThrough(v)
            THEN ExpandAlts(r, now, metric, k, Tail(alts), Append(nvs, v), failing)
            ELSE LET vs == TagValuesByMetricTagKey(r, now, metric, k, 0, failing)
                 IN IF vs.err # "nil"
                    THEN [nvs |-> nvs, err |-> ExpandErr("store", <<>>, <<>>)]
                    ELSE LET ns == Match(v, vs.r)
                         IN IF ns.err # "nil"
                            THEN [nvs |-> nvs, err |-> ExpandErr("regexp", <<>>, <<>>)]
                            ELSE ExpandAlts(r, now, metric, k, Tail(alts),
                                            nvs \o ns.nvs, failing)

\* lines 242-264: the tag keys ks still to visit; st holds q.Tags as rewritten
\* so far and the list found for each key visited
RECURSIVE ExpandLoop(_, _, _, _, _, _)
ExpandLoop(r, now, metric, st, ks, failing) ==
    IF ks = <<>> THEN st
    ELSE LET k == Head(ks)
             ov == st.Tags[k]
             res == ExpandAlts(r, now, metric, k, Split(ov, "|"), <<>>, failing)
         IN IF res.err # NoErr THEN [st EXCEPT !.err = res.err]
            ELSE IF NoMatch(res.nvs)
            THEN [st EXCEPT !.err = ExpandErr("no tags matching", k, ov)]
            ELSE ExpandLoop(r, now, metric,
                            [Tags |-> [st.Tags EXCEPT ![k] = Join(res.nvs, <<"|">>)],
                             err |-> NoErr,
                             found |-> Append(st.found, [k |-> k, nvs |-> res.nvs])],
                            Tail(ks), failing)

\* the orders in which range can visit the keys of a map
Orders(S) == { o \in [1..Cardinality(S) -> S] : Range(o) = S }

\* Search.Expand(q); order is the order in which range visits q.Tags
Expand(q, order, failing) ==
    /\ order \in Orders(DOMAIN q.Tags)
    /\ LET st == ExpandLoop(redis, clock, q.Metric,
                            [Tags |-> q.Tags, err |-> NoErr, found |-> <<>>],
                            order, failing)
       IN call' = [op |-> "Expand", q |-> q, order |-> order, now |-> clock,
                   returned |-> TRUE, Tags |-> st.Tags, err |-> st.err,
                   found |-> st.found, failing |-> failing]
    /\ UNCHANGED <<clock, Last, updateTimes, rwReaders, rwWriterWaiting, redis, npoints, rwWriter, goroutines,
                   lexer>>

----------------------------------------------------------------------------
(* The index store: points of several series and tags, store calls that fail,
   the clock, the lookups and Expand *)

Tag1(k, v) == [x \in {k} |-> v]

StorePoints ==
    { Point(cpu, Tag1(host, a1), Num(2), 1),
      Point(cpu, Tag1(host, a2), Num(2), 1),
      Point(cpu, Tag1(host, b1), Num(2), 1),
      Point(mem, Tag1(host, ax), Num(2), 1),
      Point(cpu, [x \in {host, dc} |-> IF x = host THEN b1 ELSE ax], Num(2), 1),
      Point(mem, << >>, Num(2), 1) }

\* the batches of one or two points of S within the budget of points
ShortBatches(S) ==
    { mdp \in {<<x>> : x \in S} \cup {<<x, y>> : x \in S, y \in S} :
        npoints + Len(mdp) <= MaxPoints }

ReadFailSets == { {}, ReadFns }

Sinces == { 0, 1, Window }

\* A lookup or Expand changes nothing but call, and Index and Tick do not read
\* call: the steps after one reach no state that the steps before it do not
\* reach, and are left out.
Ingesting == call.op \in {"NewSearch", "Index"}

StepTagValuesByMetricTagKey ==
    /\ Ingesting
    /\ \E metric \in {cpu, mem}, since \in Sinces, failing \in ReadFailSets :
          CallTagValuesByMetricTagKey(metric, host, since, failing)

StepTagValuesByTagKey ==
    /\ Ingesting
    /\ \E since \in Sinces, failing \in ReadFailSets :
          CallTagValuesByTagKey(host, since, failing)

StepUniqueMetrics ==
    /\ Ingesting
    /\ \E failing \in ReadFailSets : CallUniqueMetrics(failing)

StepMetricsByTagPair ==
    /\ Ingesting
    /\ \E tagv \in {a1, b1, ax}, failing \in ReadFailSets :
          CallMetricsByTagPair(host, tagv, failing)

StepTagKeysByMetric ==
    /\ Ingesting
    /\ \E metric \in {cpu, mem}, failing \in ReadFailSets :
          CallTagKeysByMetric(metric, failing)

StepTick == Ingesting /\ \E d \in TickSteps : Tick(d)

StepIndexStore == Ingesting /\ \E mdp \in ShortBatches(StorePoints) : Index(mdp, {})

NextStore ==
    \/ StepIndexStore
    \/ StepTick
    \/ StepTagValuesByMetricTagKey
    \/ StepTagValuesByTagKey
    \/ StepUniqueMetrics
    \/ StepMetricsByTagPair
    \/ StepTagKeysByMetric

SpecStore == Init /\ [][NextStore]_vars

----------------------------------------------------------------------------
(* Expand over the indexed tag values *)

Query(metric, tags) == [Metric |-> metric, Tags |-> tags]

Queries ==
    { Query(cpu, Tag1(host, <<"a", "*", "|", "b", "1">>)),
      Query(cpu, Tag1(host, <<" ", "a", "1", " ", "|", "*">>)),
      Query(cpu, Tag1(host, <<"x", "*">>)),
      Query(cpu, Tag1(host, <<"(", "*">>)),
      Query(cpu, Tag1(host, <<>>)),
      Query(cpu, [x \in {host, dc} |-> IF x = host THEN <<"*", "1">> ELSE <<"a", "*">>]),
      Query(mem, << >>) }

StepExpand ==
    /\ Ingesting
    /\ \E q \in Queries, failing \in ReadFailSets :
          \E order \in Orders(DOMAIN q.Tags) : Expand(q, order, failing)

NextExpand ==
    \/ StepIndexStore
    \/ StepExpand

SpecExpand == Init /\ [][NextExpand]_vars

----------------------------------------------------------------------------
(* Store calls that fail *)

FaultPoints ==
    { Point(cpu, Tag1(host, a1), Num(2), 1),
      Point(mem, Tag1(host, b1), Num(2), 1),
      Point(cpu, [x \in {host, dc} |-> IF x = host THEN b1 ELSE ax], Num(2), 1) }

FailSets == { {}, {"Search_AddTagValue"}, {"Search_AddMetric"}, WriteFns }

StepIndexFaults ==
    /\ Ingesting
    /\ \E mdp \in ShortBatches(FaultPoints), failing \in FailSets : Index(mdp, failing)

NextFaults ==
    \/ StepIndexFaults
    \/ StepTick
    \/ StepTagValuesByMetricTagKey
    \/ StepTagValuesByTagKey
    \/ StepUniqueMetrics
    \/ StepMetricsByTagPair
    \/ StepTagKeysByMetric

SpecFaults == Init /\ [][NextFaults]_vars

----------------------------------------------------------------------------
(* Match called on its own *)

Searches ==
    { <<"a", "*">>, <<"*">>, <<"a", ".", "b">>, <<"a", "1">>, <<"*", "1">>,
      <<"(", "*">>, <<>> }

Candidates ==
    { a1, a2, b1, <<"a", ".", "b">>, <<"a", "x", "b">>, <<"x", "a", "1">>,
      <<"a", "\n", "b">> }

CallMatch(search, values) ==
    /\ call' = [op |-> "Match", search |-> search, values |-> values, returned |-> TRUE,
                nvs |-> Match(search, values).nvs, err |-> Match(search, values).err]
    /\ UNCHANGED <<clock, Last, updateTimes, rwReaders, rwWriterWaiting, redis, npoints, rwWriter, goroutines,
                   lexer>>

\* Match is called once in a behaviour, on the new engine
NextMatch ==
    /\ call.op = "NewSearch"
    /\ \E search \in Searches, values \in {<<>>} \cup SeqsUpTo(Candidates, MaxCandidates) :
          CallMatch(search, values)

SpecMatch == Init /\ [][NextMatch]_vars

----------------------------------------------------------------------------
(* Goroutines running Index, GetLast and UniqueMetrics statement by statement.
   Each Index call carries the one point ConcPoint. *)

ConcPoint == Point(cpu, Tag1(host, a1), Num(2), 1)

ConcKey == SeriesKey(ConcPoint.Metric, ConcPoint.Tags)

\* sync.RWMutex: RLock returns when no writer holds the lock and none is queued
CanRLock == ~rwWriter /\ ~rwWriterWaiting

\* sync.RWMutex: Lock returns when nobody holds the lock
CanLock == ~rwWriter /\ rwReaders = 0

\* the goroutine g moves to the record r
Goto(g, r) == goroutines' = [goroutines EXCEPT ![g] = r]

\* a goroutine enters Index: line 146 reads the clock
GoIndex(g) ==
    /\ goroutines[g].pc = "idle"
    /\ goroutines[g].calls < MaxCalls
    /\ Goto(g, [goroutines[g] EXCEPT !.pc = "Index:152", !.now = clock,
                                     !.calls = @ + 1])
    /\ UNCHANGED <<clock, Last, updateTimes, rwReaders, rwWriterWaiting, rwWriter, redis,
                   npoints, call, lexer>>

\* line 152: s.RLock()
IndexRLock(g) ==
    /\ goroutines[g].pc = "Index:152"
    /\ CanRLock
    /\ rwReaders' = rwReaders + 1
    /\ Goto(g, [goroutines[g] EXCEPT !.pc = "Index:153", !.readHeld = @ + 1])
    /\ UNCHANGED <<clock, Last, updateTimes, rwWriterWaiting, rwWriter, redis, npoints, call,
                   lexer>>

\* lines 153-157: the throttle check, then s.RUnlock()
IndexCheck(g) ==
    /\ goroutines[g].pc = "Index:153"
    /\ rwReaders' = rwReaders - 1
    /\ LET needUpdate == NeedUpdate(updateTimes, ConcKey, goroutines[g].now)
       IN Goto(g, [goroutines[g] EXCEPT !.pc = IF needUpdate THEN "Index:159"
                                                             ELSE "Index:171",
                                        !.needUpdate = needUpdate,
                                        !.readHeld = @ - 1])
    /\ UNCHANGED <<clock, Last, updateTimes, rwWriterWaiting, rwWriter, redis, npoints, call,
                   lexer>>

\* lines 159 and 171: s.Lock() returns
IndexLock(g) ==
    /\ goroutines[g].pc \in {"Index:159", "Index:171"}
    /\ CanLock
    /\ rwWriter' = TRUE
    /\ rwWriterWaiting' = FALSE
    /\ Goto(g, [goroutines[g] EXCEPT !.pc = IF @ = "Index:159" THEN "Index:160"
                                                               ELSE "Index:172",
                                     !.writeHeld = TRUE])
    /\ UNCHANGED <<clock, Last, updateTimes, rwReaders, redis, npoints, call, lexer>>

\* lines 159 and 171: s.Lock() has to wait, and from then on holds back new readers
IndexLockWaits(g) ==
    /\ goroutines[g].pc \in {"Index:159", "Index:171"}
    /\ ~CanLock
    /\ ~rwWriterWaiting
    /\ rwWriterWaiting' = TRUE
    /\ UNCHANGED <<clock, Last, updateTimes, rwReaders, rwWriter, redis, npoints, call,
                   goroutines, lexer>>

\* lines 160-161: the throttle record is set, then s.Unlock()
IndexSetUpdateTime(g) ==
    /\ goroutines[g].pc = "Index:160"
    /\ updateTimes' = [k \in DOMAIN updateTimes \cup {ConcKey} |->
                          IF k = ConcKey THEN goroutines[g].now ELSE updateTimes[k]]
    /\ rwWriter' = FALSE
    /\ Goto(g, [goroutines[g] EXCEPT !.pc = "Index:162", !.writeHeld = FALSE])
    /\ UNCHANGED <<clock, Last, rwReaders, rwWriterWaiting, redis, npoints, call, lexer>>

\* lines 162-168: the store calls of the point
IndexStore(g) ==
    /\ goroutines[g].pc = "Index:162"
    /\ redis' = ApplyWrites(redis, PointWrites(ConcPoint, goroutines[g].now, {}))
    /\ Goto(g, [goroutines[g] EXCEPT !.pc = "Index:171", !.sets = @ + 1])
    /\ UNCHANGED <<clock, Last, updateTimes, rwReaders, rwWriterWaiting, rwWriter, npoints,
                   call, lexer>>

\* lines 172-186: the last-value update, then s.Unlock(); the call returns
IndexUpdateLast(g) ==
    /\ goroutines[g].pc = "Index:172"
    /\ Last' = UpdateLast(Last, ConcKey, ConcPoint)
    /\ rwWriter' = FALSE
    /\ Goto(g, [goroutines[g] EXCEPT !.pc = "idle", !.writeHeld = FALSE])
    /\ UNCHANGED <<clock, updateTimes, rwReaders, rwWriterWaiting, redis, npoints, call, lexer>>

\* a goroutine enters GetLast on the key of ConcPoint
GoGetLast(g) ==
    /\ goroutines[g].pc = "idle"
    /\ goroutines[g].calls < MaxCalls
    /\ Goto(g, [goroutines[g] EXCEPT !.pc = "GetLast:229", !.calls = @ + 1])
    /\ UNCHANGED <<clock, Last, updateTimes, rwReaders, rwWriterWaiting, rwWriter, redis,
                   npoints, call, lexer>>

\* line 229: s.RLock()
GetLastRLock(g) ==
    /\ goroutines[g].pc = "GetLast:229"
    /\ CanRLock
    /\ rwReaders' = rwReaders + 1
    /\ Goto(g, [goroutines[g] EXCEPT !.pc = "GetLast:230", !.readHeld = @ + 1])
    /\ UNCHANGED <<clock, Last, updateTimes, rwWriterWaiting, rwWriter, redis, npoints, call,
                   lexer>>

\* lines 230-238: a hit returns with the read lock held, a miss after s.RUnlock()
GetLastReturn(g) ==
    /\ goroutines[g].pc = "GetLast:230"
    /\ IF ConcKey \in DOMAIN Last
       THEN /\ rwReaders' = rwReaders
            /\ Goto(g, [goroutines[g] EXCEPT !.pc = "idle", !.readHeld = @ - 1,
                                             !.leaked = @ + 1])
       ELSE /\ rwReaders' = rwReaders - 1
            /\ Goto(g, [goroutines[g] EXCEPT !.pc = "idle", !.readHeld = @ - 1])
    /\ UNCHANGED <<clock, Last, updateTimes, rwWriterWaiting, rwWriter, redis, npoints, call,
                   lexer>>

\* a goroutine enters UniqueMetrics and is inside Search_GetAllMetrics (line 269)
GoUniqueMetrics(g) ==
    /\ goroutines[g].pc = "idle"
    /\ goroutines[g].calls < MaxCalls
    /\ Goto(g, [goroutines[g] EXCEPT !.pc = "UniqueMetrics:269", !.calls = @ + 1])
    /\ UNCHANGED <<clock, Last, updateTimes, rwReaders, rwWriterWaiting, rwWriter, redis,
                   npoints, call, lexer>>

\* lines 270-280: UniqueMetrics returns
UniqueMetricsReturn(g) ==
    /\ goroutines[g].pc = "UniqueMetrics:269"
    /\ Goto(g, [goroutines[g] EXCEPT !.pc = "idle"])
    /\ UNCHANGED <<clock, Last, updateTimes, rwReaders, rwWriterWaiting, rwWriter, redis,
                   npoints, call, lexer>>

NextConc ==
    \E g \in Goroutines :
        \/ GoIndex(g)
        \/ IndexRLock(g)
        \/ IndexCheck(g)
        \/ IndexLock(g)
        \/ IndexLockWaits(g)
        \/ IndexSetUpdateTime(g)
        \/ IndexStore(g)
        \/ IndexUpdateLast(g)
        \/ GoGetLast(g)
        \/ GetLastRLock(g)
        \/ GetLastReturn(g)
        \/ GoUniqueMetrics(g)
        \/ UniqueMetricsReturn(g)

SpecConc == Init /\ [][NextConc]_vars

----------------------------------------------------------------------------
(* conf: the lexer of configuration files (lex.go).  Runes are integers, the
   input is a sequence of runes of one byte each, positions count from 0. *)

itemError == 0
itemEOF == 1
itemEqual == 2
itemLeftDelim == 3
itemRawString == 4
itemIdentifier == 5
itemRightDelim == 6
itemString == 7

eof == -1

leftDelim == 91
rightDelim == 93

\* r == ' ' || r == '\t'
isSpace(r) == r = 32 \/ r = 9

\* r == '\r' || r == '\n'
isEndOfLine(r) == r = 13 \/ r = 10

\* r == '_' || unicode.IsLetter(r) || unicode.IsDigit(r), on the runes _ 0-9 A-Z a-z
isVarchar(r) == r = 95 \/ r \in 48..57 \/ r \in 65..90 \/ r \in 97..122

\* next: the lexer after the call and the rune returned
next(l) ==
    IF l.pos >= Len(l.input)
    THEN [l |-> [l EXCEPT !.width = 0], r |-> eof]
    ELSE [l |-> [l EXCEPT !.width = 1, !.pos = @ + 1], r |-> l.input[l.pos + 1]]

backup(l) == [l EXCEPT !.pos = @ - l.width]

\* peek: next, then backup
peek(l) == [l |-> backup(next(l).l), r |-> next(l).r]

\* emit: the item goes into the channel, where it waits for nextItem
emit(l, t) ==
    [l EXCEPT !.items = <<[typ |-> t, pos |-> l.start,
                           val |-> SubSeq(l.input, l.start + 1, l.pos)]>>,
              !.start = l.pos]

ignore(l) == [l EXCEPT !.start = l.pos]

\* a state function returns the state s
Return(l, s) == [l EXCEPT !.resume = s]

\* errorf with the scan going on in lexSpace after the error item
errorf_GoesOn(l, msg) ==
    Return([l EXCEPT !.items = <<[typ |-> itemError, pos |-> l.start, val |-> msg]>>],
           "lexSpace")

\* errorf: the error item goes into the channel and the nil state is returned
errorf(l, msg) ==
    Return([l EXCEPT !.items = <<[typ |-> itemError, pos |-> l.start, val |-> msg]>>],
           "nil")

\* the element of a set of one element; the state functions use it to name
\* the result of one call of l.next(), so that the call is evaluated once
The(S) == CHOOSE x \in S : TRUE

RECURSIVE lexSpace(_)
lexSpace(l) ==
    The({ IF n.r = leftDelim THEN Return(n.l, "lexLeftDelim")
          ELSE IF isVarchar(n.r) THEN Return(backup(n.l), "lexValue")
          ELSE IF isSpace(n.r) \/ isEndOfLine(n.r) THEN lexSpace(n.l)
          ELSE IF n.r = eof THEN Return(emit(n.l, itemEOF), "nil")
          ELSE errorf(n.l, "invalid character") : n \in {next(l)} })

lexLeftDelim(l) == Return(emit(l, itemLeftDelim), "lexVarname")

\* the loop of lexVarname
RECURSIVE lexVarnameLoop(_)
lexVarnameLoop(l) ==
    The({ IF isVarchar(n.r) THEN lexVarnameLoop(n.l)
          ELSE IF n.r = rightDelim
          THEN Return(emit(backup(n.l), itemIdentifier), "lexRightDelim")
          ELSE errorf(n.l, "invalid varname") : n \in {next(l)} })

lexVarname(l) == lexVarnameLoop(ignore(l))

lexRightDelim(l) == Return(emit([l EXCEPT !.pos = @ + 1], itemRightDelim), "lexSpace")

\* the loop of lexValue
RECURSIVE lexValueLoop(_)
lexValueLoop(l) ==
    The({ IF isVarchar(n.r) THEN lexValueLoop(n.l)
          ELSE Return(emit(backup(n.l), itemIdentifier), "lexEqual") : n \in {next(l)} })

lexValue(l) == lexValueLoop(ignore(l))

\* lines 241-243: for isSpace(l.peek()) { l.next() }
RECURSIVE skipSpaces(_)
skipSpaces(l) ==
    The({ IF isSpace(p.r) THEN skipSpaces(next(p.l).l) ELSE p.l : p \in {peek(l)} })

\* lines 241-248, after the = has been emitted
lexEqualRest(l) ==
    The({ IF peek(m).r = 96 THEN Return(peek(m).l, "lexRawString")
          ELSE Return(peek(m).l, "lexString") : m \in {ignore(skipSpaces(l))} })

RECURSIVE lexEqual(_)
lexEqual(l) ==
    The({ IF n.r = 61 THEN lexEqualRest(emit(n.l, itemEqual))
          ELSE IF isSpace(n.r) THEN lexEqual(ignore(n.l))
          ELSE errorf(n.l, "expected =") : n \in {next(l)} })

RECURSIVE lexString(_)
lexString(l) ==
    The({ IF isEndOfLine(n.r) \/ n.r = eof THEN Return(emit(n.l, itemString), "lexSpace")
          ELSE lexString(n.l) : n \in {next(l)} })

\* the loop of lexRawString
RECURSIVE lexRawStringLoop(_)
lexRawStringLoop(l) ==
    The({ IF n.r = eof THEN errorf(n.l, "unterminated raw string")
          ELSE IF n.r = 96 THEN Return(emit(n.l, itemRawString), "lexSpace")
          ELSE lexRawStringLoop(n.l) : n \in {next(l)} })

lexRawString(l) == lexRawStringLoop(next(l).l)

\* line 154: l.state(l)
stateFn(l) ==
    CASE l.state = "lexSpace" -> lexSpace(l)
      [] l.state = "lexLeftDelim" -> lexLeftDelim(l)
      [] l.state = "lexVarname" -> lexVarname(l)
      [] l.state = "lexRightDelim" -> lexRightDelim(l)
      [] l.state = "lexValue" -> lexValue(l)
      [] l.state = "lexEqual" -> lexEqual(l)
      [] l.state = "lexString" -> lexString(l)
      [] l.state = "lexRawString" -> lexRawString(l)

\* lex(name, input): the lexer is made and run starts in lexSpace
lex(input) ==
    /\ lexer.state = "none"
    /\ lexer' = [input |-> input, state |-> "lexSpace", pos |-> 0, start |-> 0,
                 width |-> 0, lastPos |-> 0, items |-> <<>>, resume |-> "lexSpace",
                 out |-> <<>>]
    /\ UNCHANGED <<clock, Last, updateTimes, rwReaders, rwWriterWaiting, rwWriter, redis,
                   npoints, call, goroutines>>

\* lines 153-155: one turn of the loop of run.  The channel has no buffer: a
\* state function that sends an item waits in the send, with l.state still
\* naming it, until nextItem has taken the item.
run ==
    /\ lexer.state \notin {"none", "nil"}
    /\ lexer.items = <<>>
    /\ \E l \in {stateFn(lexer)} :
          lexer' = IF l.items = <<>> THEN [l EXCEPT !.state = l.resume] ELSE l
    /\ UNCHANGED <<clock, Last, updateTimes, rwReaders, rwWriterWaiting, rwWriter, redis,
                   npoints, call, goroutines>>

\* nextItem: the consumer takes the item; the state function that sent it returns
nextItem ==
    /\ lexer.state \notin {"none", "nil"}
    /\ lexer.items # <<>>
    /\ lexer' = [lexer EXCEPT !.out = Append(@, lexer.items[1]),
                              !.lastPos = lexer.items[1].pos,
                              !.items = <<>>,
                              !.state = lexer.resume]
    /\ UNCHANGED <<clock, Last, updateTimes, rwReaders, rwWriterWaiting, rwWriter, redis,
                   npoints, call, goroutines>>

\* the runes of the inputs: a [ ] = space, line feed, ` and #
Runes == {97, 91, 93, 61, 32, 10, 96, 35}

\* a = `a`, a line feed, [a]
LongInput == <<97, 32, 61, 32, 96, 97, 96, 10, 91, 97, 93>>

Inputs == {<<>>, LongInput} \cup SeqsUpTo(Runes, MaxInput)

NextLex ==
    \/ lexer.state = "none" /\ \E input \in Inputs : lex(input)
    \/ run
    \/ nextItem

\* the goroutine of run is scheduled, and the consumer keeps calling nextItem
SpecLex == Init /\ [][NextLex]_vars /\ WF_vars(run) /\ WF_vars(nextItem)

----------------------------------------------------------------------------
(* Properties of the indexer, checked under Spec *)

\* Index ran to its end in the step that led to this state
IndexReturned == call.op = "Index" /\ call.returned

IsNumeric(v) == v.kind \in {"int", "float"}

\* the store calls Index owes a point that needs an index update
ExpectedWrites(dp) ==
    UNION { { [fn |-> "Search_AddMetricForTag", key |-> searchMetricKey(k, dp.Tags[k]),
               field |-> dp.Metric],
              [fn |-> "Search_AddTagKeyForMetric", key |-> searchTagkKey(dp.Metric),
               field |-> k],
              [fn |-> "Search_AddTagValue", key |-> searchTagvKey(dp.Metric, k),
               field |-> dp.Tags[k]],
              [fn |-> "Search_AddTagValue", key |-> searchTagvKey(Search_All, k),
               field |-> dp.Tags[k]],
              [fn |-> "Search_AddMetric", key |-> searchAllMetricsKey,
               field |-> dp.Metric] } : k \in DOMAIN dp.Tags }

IssuedWrites(t) ==
    { [fn |-> t.writes[j].fn, key |-> t.writes[j].key, field |-> t.writes[j].field] :
        j \in DOMAIN t.writes }

\* C1: a point whose series key has a throttle record at most one window
\* (10 minutes) old issues no store write and leaves the record alone; a point
\* whose record is older than the window issues the writes of all its tags
\* again, each with the time of the call, and resets the record to that time;
\* so of the points of one key in a call at most the first one writes.
C1_Throttle ==
    IndexReturned =>
        /\ \A i \in DOMAIN call.trace :
             LET t == call.trace[i]
                 dp == call.mdp[i]
             IN /\ (t.ok /\ call.now - t.lastUpdate <= 600) =>
                       /\ t.writes = <<>>
                       /\ t.updateTime = t.lastUpdate
                /\ (t.ok /\ call.now - t.lastUpdate > 600) =>
                       /\ IssuedWrites(t) = ExpectedWrites(dp)
                       /\ \A j \in DOMAIN t.writes : t.writes[j].time = call.now
                       /\ t.updateTime = call.now
                /\ (\A j \in DOMAIN call.trace : j > i => call.trace[j].key # t.key)
                       => updateTimes[t.key] = t.updateTime
        /\ \A i, j \in DOMAIN call.trace :
             (i < j /\ call.trace[i].key = call.trace[j].key) => call.trace[j].writes = <<>>

\* a point of a key whose record had expired wrote to the store again
C1_Witness ==
    /\ IndexReturned
    /\ \E i \in DOMAIN call.trace :
         /\ call.trace[i].ok
         /\ call.now - call.trace[i].lastUpdate > 600
         /\ call.trace[i].writes # <<>>
         /\ updateTimes[call.trace[i].key] = call.now

\* C2: a point whose timestamp is at most the cached timestamp of its key
\* leaves the key's cache entry as it was, whatever its value and whether or
\* not it passes the throttle check.
C2_StalePointKeepsEntry ==
    IndexReturned =>
        \A i \in DOMAIN call.trace :
            LET t == call.trace[i]
            IN (t.cached /\ call.mdp[i].Timestamp <= t.before.timestamp) => t.after = t.before

\* a stale numeric point with another value passed the throttle check, wrote
\* to the store and left the entry alone
C2_Witness ==
    /\ IndexReturned
    /\ \E i \in DOMAIN call.trace :
         LET t == call.trace[i]
         IN /\ t.cached
            /\ call.mdp[i].Timestamp <= t.before.timestamp
            /\ IsNumeric(call.mdp[i].Value)
            /\ Float(call.mdp[i].Value.v) # t.before.lastVal
            /\ t.writes # <<>>

\* the pairs of points of one call that follow each other on the same key
KeyPairs ==
    { ij \in (DOMAIN call.trace) \X (DOMAIN call.trace) :
        /\ ij[1] < ij[2]
        /\ call.trace[ij[1]].key = call.trace[ij[2]].key
        /\ \A k \in DOMAIN call.trace :
             (ij[1] < k /\ k < ij[2]) => call.trace[k].key # call.trace[ij[1]].key }

\* the pairs of numeric points (v1, t1), (v2, t2) with t1 < t2 among them
RisingPairs ==
    { ij \in KeyPairs :
        /\ IsNumeric(call.mdp[ij[1]].Value)
        /\ IsNumeric(call.mdp[ij[2]].Value)
        /\ call.mdp[ij[1]].Timestamp < call.mdp[ij[2]].Timestamp }

\* the entry that indexing p2 first and p1 second makes of the entry e
Reversed(e, p1, p2) == UpdateInfo(UpdateInfo(e, p2), p1)

\* C3 as stated: both orders end in the same entry, with lastVal = v2 and
\* timestamp = t2.
C3_Original ==
    IndexReturned =>
        \A ij \in RisingPairs :
            LET p1 == call.mdp[ij[1]]
                p2 == call.mdp[ij[2]]
                e == call.trace[ij[2]].after
            IN /\ e = Reversed(call.trace[ij[1]].before, p1, p2)
               /\ e.lastVal = Float(p2.Value.v)
               /\ e.timestamp = p2.Timestamp

\* C3 as amended: both orders end with the same lastVal and timestamp, which
\* are v2 and t2 when t2 is greater than the timestamp cached before the two
\* points; diffFromPrev may differ between the orders.
C3_OrderOfTwoPoints ==
    IndexReturned =>
        \A ij \in RisingPairs :
            LET p1 == call.mdp[ij[1]]
                p2 == call.mdp[ij[2]]
                e0 == call.trace[ij[1]].before
                e == call.trace[ij[2]].after
                r == Reversed(e0, p1, p2)
            IN /\ e.lastVal = r.lastVal
               /\ e.timestamp = r.timestamp
               /\ p2.Timestamp > e0.timestamp =>
                     (e.lastVal = Float(p2.Value.v) /\ e.timestamp = p2.Timestamp)

\* two numeric points with t1 < t2 and different values were indexed on a key
\* whose cached timestamp was below t1, and the other order would have given
\* another diffFromPrev
C3_Witness ==
    /\ IndexReturned
    /\ \E ij \in RisingPairs :
         /\ call.mdp[ij[1]].Value # call.mdp[ij[2]].Value
         /\ call.trace[ij[1]].cached
         /\ call.trace[ij[1]].before.timestamp < call.mdp[ij[1]].Timestamp
         /\ Last[call.trace[ij[2]].key].lastVal = Float(call.mdp[ij[2]].Value.v)
         /\ Last[call.trace[ij[2]].key].diffFromPrev #
               Reversed(call.trace[ij[1]].before, call.mdp[ij[1]], call.mdp[ij[2]]).diffFromPrev

\* C4 as stated: a point whose value is not numeric leaves lastVal, timestamp
\* and diffFromPrev of its key as they were.
C4_Original ==
    IndexReturned =>
        \A i \in DOMAIN call.trace :
            LET t == call.trace[i]
            IN (t.cached /\ ~IsNumeric(call.mdp[i].Value)) => t.after = t.before

\* the rate between the points i and j of the call
RateOf(i, j) ==
    Frac(call.mdp[j].Value.v - call.mdp[i].Value.v,
         call.mdp[j].Timestamp - call.mdp[i].Timestamp)

IsLastOfKey(j) == \A k \in DOMAIN call.trace : k > j => call.trace[k].key # call.trace[j].key

\* the next call is GetLast(diff = true) on the given key and returns
GetLastDiffNext(key) ==
    /\ call'.op = "GetLast"
    /\ call'.returned
    /\ call'.diff
    /\ call'.metric \o call'.tags = key

\* C6 as stated: after (v1, t1) then (v2, t2), t1 < t2, diffFromPrev is
\* (v2 - v1) / (t2 - t1), and GetLast(diff = true) returns it.
C6_Original ==
    [][ IndexReturned =>
          \A ij \in RisingPairs :
              /\ call.trace[ij[2]].after.diffFromPrev = RateOf(ij[1], ij[2])
              /\ (IsLastOfKey(ij[2]) /\ GetLastDiffNext(call.trace[ij[2]].key))
                    => call'.v = RateOf(ij[1], ij[2]) ]_vars

\* C6 as amended: the same, provided t1 is greater than the timestamp cached
\* for the key before the first point (0 for a key not indexed before).
C6_Rate ==
    [][ IndexReturned =>
          \A ij \in RisingPairs :
              call.mdp[ij[1]].Timestamp > call.trace[ij[1]].before.timestamp =>
                  /\ call.trace[ij[2]].after.diffFromPrev = RateOf(ij[1], ij[2])
                  /\ (IsLastOfKey(ij[2]) /\ GetLastDiffNext(call.trace[ij[2]].key))
                        => call'.v = RateOf(ij[1], ij[2]) ]_vars

\* GetLast(diff = true) returned the rate 3/2 of the points (2, 1) and (5, 3)
C6_Witness ==
    /\ call.op = "GetLast"
    /\ call.returned
    /\ call.diff
    /\ call.v = Frac(3, 2)
    /\ call.metric \o call.tags \in DOMAIN Last
    /\ Last[call.metric \o call.tags] =
          [lastVal |-> Float(5), diffFromPrev |-> Frac(3, 2), timestamp |-> 3]

C9_WitnessMiss ==
    /\ call.op = "GetLast"
    /\ call.returned
    /\ call.metric \o call.tags \notin DOMAIN Last
    /\ Last # << >>

----------------------------------------------------------------------------
(* Properties of the store path *)

LookupOps == {"UniqueMetrics", "MetricsByTagPair", "TagKeysByMetric",
              "TagValuesByMetricTagKey", "TagValuesByTagKey"}

\* C5 as stated: a call of Index or of a lookup during which a store call
\* failed reports an error to its caller.
C5_Original ==
    /\ (IndexReturned /\ call.storeFailed) => call.err # "none"
    /\ (call.op \in LookupOps /\ call.failing # {}) => call.err # "nil"

\* the hash of tag values recorded for (metric, tagK)
Recorded(metric, tagK) ==
    IF searchTagvKey(metric, tagK) \in DOMAIN redis
    THEN redis[searchTagvKey(metric, tagK)] ELSE << >>

\* the metric a tag value lookup reads: the ALL sentinel for TagValuesByTagKey
LookupMetric == IF call.op = "TagValuesByTagKey" THEN Search_All ELSE call.args.metric

\* C10: with since = 0 TagValuesByMetricTagKey returns every value recorded
\* for (metric, tagKey); with since > 0 exactly those last seen at or after
\* now - since; each value once.  TagValuesByTagKey does so on the ALL sentinel.
C10_TagValues ==
    (call.op \in {"TagValuesByMetricTagKey", "TagValuesByTagKey"} /\ call.err = "nil") =>
        LET rec == Recorded(LookupMetric, call.args.tagK)
            want == IF call.args.since = 0 THEN DOMAIN rec
                    ELSE { v \in DOMAIN rec : rec[v] >= call.now - call.args.since }
        IN /\ Range(call.r) = want
           /\ Len(call.r) = Cardinality(want)

\* a lookup with since > 0 returned one recorded value and left out an older one
C10_Witness ==
    /\ call.op = "TagValuesByMetricTagKey"
    /\ call.err = "nil"
    /\ call.args.since > 0
    /\ call.r # <<>>
    /\ \E v \in DOMAIN Recorded(call.args.metric, call.args.tagK) : v \notin Range(call.r)

\* TagValuesByTagKey with since = 0 returned values recorded under two metrics
C10_WitnessAll ==
    /\ call.op = "TagValuesByTagKey"
    /\ call.err = "nil"
    /\ call.args.since = 0
    /\ Range(call.r) = {a1, ax}

----------------------------------------------------------------------------
(* Properties of Expand, checked under SpecExpand *)

\* the pattern p, in which * stands for any run of characters and every other
\* character for itself, matches the whole of v
RECURSIVE Glob(_, _)
Glob(p, v) ==
    IF p = <<>> THEN v = <<>>
    ELSE IF Head(p) = "*"
    THEN \E n \in 0..Len(v) : Glob(Tail(p), SubSeq(v, n + 1, Len(v)))
    ELSE v # <<>> /\ Head(v) = Head(p) /\ Glob(Tail(p), Tail(v))

\* the trimmed alternatives of the expression ov
Alternatives(ov) == { TrimSpace(x) : x \in Range(Split(ov, "|")) }

\* those that are * or hold no *
Literals(ov) == { x \in Alternatives(ov) : x = <<"*">> \/ ~Contains(x, "*") }

Patterns(ov) == Alternatives(ov) \ Literals(ov)

\* the recorded tag values of (metric, k) that some pattern of ov matches
Matched(metric, k, ov) ==
    { v \in DOMAIN Recorded(metric, k) : \E x \in Patterns(ov) : Glob(x, v) }

\* every pattern of ov is a regular expression once translated
WellFormed(ov) == \A x \in Patterns(ov) : Compile(Translate(x)).err = "nil"

\* the expression of tag key k of the query resolves to no value at all
ResolvesToNothing(q, k) ==
    /\ WellFormed(q.Tags[k])
    /\ Literals(q.Tags[k]) = {}
    /\ Matched(q.Metric, k, q.Tags[k]) = {}

C8_ExpandResult ==
    (call.op = "Expand" /\ call.err = NoErr) =>
        \A k \in DOMAIN call.q.Tags :
            Range(Split(call.Tags[k], "|"))
                = Literals(call.q.Tags[k]) \cup Matched(call.q.Metric, k, call.q.Tags[k])

\* a* | b1 over the recorded values a1, a2, b1 became the set a1, a2, b1
C8_Witness ==
    /\ call.op = "Expand"
    /\ call.err = NoErr
    /\ call.q = Query(cpu, Tag1(host, <<"a", "*", "|", "b", "1">>))
    /\ DOMAIN Recorded(cpu, host) = {a1, a2, b1}
    /\ Range(Split(call.Tags[host], "|")) = {a1, a2, b1}

\* *1 left out the recorded value a2
C8_WitnessLeftOut ==
    /\ call.op = "Expand"
    /\ call.err = NoErr
    /\ DOMAIN call.q.Tags = {host, dc}
    /\ a2 \in DOMAIN Recorded(cpu, host)
    /\ Range(Split(call.Tags[host], "|")) = {a1, b1}

----------------------------------------------------------------------------
(* Properties of the lookups' results *)

\* C11: every lookup that succeeds returns a list in strictly ascending byte
\* order, which also means that no element is in it twice.
C11_SortedNoDuplicates ==
    (call.op \in LookupOps /\ call.err = "nil") =>
        /\ \A i, j \in DOMAIN call.r : i < j => StrLess(call.r[i], call.r[j])
        /\ Cardinality(Range(call.r)) = Len(call.r)

\* a lookup returned three values
C11_Witness ==
    /\ call.op \in LookupOps
    /\ call.err = "nil"
    /\ Len(call.r) >= 3

----------------------------------------------------------------------------
(* Properties of Match, checked under SpecMatch *)

\* the candidates the pattern matches as a whole, in their order, when * is
\* any run of characters and every other character is itself
GlobMatches(search, values) == SelectSeq(values, LAMBDA v : Glob(search, v))

\* C12 as stated: Match returns, in their order, the candidates that the
\* pattern matches as a whole, with . a literal dot and * any run of characters.
C12_Original ==
    (call.op = "Match" /\ call.err = "nil") =>
        call.nvs = GlobMatches(call.search, call.values)

HasLineFeed(v) == \E i \in DOMAIN v : v[i] = "\n"

\* what C12 states does hold of the candidates without a line feed: the others
\* are matched by no pattern that has a * to cover the line feed
C12_WithoutLineFeed ==
    (call.op = "Match" /\ call.err = "nil") =>
        call.nvs = GlobMatches(call.search, SelectSeq(call.values, LAMBDA v : ~HasLineFeed(v)))

----------------------------------------------------------------------------
(* Properties of the lock, checked under Spec *)

\* C13 as stated: GetLast returns with the read lock released on every path,
\* so no read lock is held after a GetLast call that returned, and an Index
\* call made afterwards gets the write lock and returns.
C13_Original ==
    /\ (call.op = "GetLast" /\ call.returned) => rwReaders = 0
    /\ call.op = "Index" => call.returned

----------------------------------------------------------------------------
(* Properties of the goroutines, checked under SpecConc.  The clock stands
   still there, so all calls fall into one throttle window. *)

\* C14 as stated: of the Index calls that run concurrently on one series key
\* whose throttle record is absent, exactly one issues the store writes: no
\* two goroutines have issued a set of writes for the key in one window.
C14_Original ==
    \A g, h \in Goroutines :
        (goroutines[g].sets > 0 /\ goroutines[h].sets > 0) => g = h

\* the goroutine is inside a call of the store
InStoreCall(g) == goroutines[g].pc \in {"Index:162", "UniqueMetrics:269"}

\* C15 as stated: a goroutine inside a store call holds neither a read lock
\* nor the write lock of the engine.
C15_Original ==
    \A g \in Goroutines :
        InStoreCall(g) =>
            /\ goroutines[g].readHeld + goroutines[g].leaked = 0
            /\ ~goroutines[g].writeHeld

\* what does hold: a goroutine inside a store call holds no lock that the call
\* it is running has taken
C15_LocksOfTheRunningCall ==
    \A g \in Goroutines :
        InStoreCall(g) => (goroutines[g].readHeld = 0 /\ ~goroutines[g].writeHeld)

\* the goroutine is about to take the lock for the last-value cache: for
\* reading in GetLast, for writing in the last-value step of Index
WantsLast(g) == goroutines[g].pc \in {"GetLast:229", "Index:171"}

\* the goroutine is about to take the lock for the throttle records
WantsUpdateTimes(g) == goroutines[g].pc \in {"Index:152", "Index:159"}

\* the lock call the goroutine is at returns without waiting
Proceeds(g) ==
    IF goroutines[g].pc \in {"GetLast:229", "Index:152"} THEN CanRLock ELSE CanLock

\* C16 as stated: a goroutine that holds the write lock for the update of a
\* throttle record holds back no goroutine that is about to read or update the
\* last-value cache, and a goroutine that holds the write lock for the
\* last-value update holds back none that is about to read or update a
\* throttle record.
C16_Original ==
    \A g, h \in Goroutines :
        /\ (goroutines[g].pc = "Index:160" /\ WantsLast(h)) => Proceeds(h)
        /\ (goroutines[g].pc = "Index:172" /\ WantsUpdateTimes(h)) => Proceeds(h)

----------------------------------------------------------------------------
(* Properties of the store writes, checked under SpecFaults *)

\* C17: for a point that needs an index update Index issues, for every tag of
\* the point, the five store calls, five calls per tag in all, each with the
\* time of the call, whether or not some of them fail; the calls that do not
\* fail are in the store with that time when Index returns.
C17_AllWritesIssued ==
    IndexReturned =>
        \A i \in DOMAIN call.trace :
            LET t == call.trace[i]
                dp == call.mdp[i]
            IN t.needUpdate =>
                /\ Len(t.writes) = 5 * Cardinality(DOMAIN dp.Tags)
                /\ ExpectedWrites(dp) \subseteq IssuedWrites(t)
                /\ \A j \in DOMAIN t.writes :
                      /\ t.writes[j].time = call.now
                      /\ ~t.writes[j].failed =>
                            /\ t.writes[j].key \in DOMAIN redis
                            /\ t.writes[j].field \in DOMAIN redis[t.writes[j].key]
                            /\ redis[t.writes[j].key][t.writes[j].field] = call.now

\* a point with two tags issued its ten store calls although the third and the
\* fourth of them failed
C17_Witness ==
    /\ IndexReturned
    /\ \E i \in DOMAIN call.trace :
         /\ Cardinality(DOMAIN call.mdp[i].Tags) = 2
         /\ Len(call.trace[i].writes) = 10
         /\ call.trace[i].writes[3].failed
         /\ call.trace[i].writes[4].failed
         /\ ~call.trace[i].writes[5].failed

----------------------------------------------------------------------------
(* Properties of the metric registry, checked under SpecStore, where the
   store accepts every write *)

\* the metrics UniqueMetrics would return
Registered == Range(UniqueMetrics(redis, {}).r)

\* C18 as stated: a point that passes the throttle check, its tags empty or
\* not, has issued Search_AddMetric for its metric, and the metric is in the
\* registry when Index returns; so no throttle record is set in a step that
\* did not register the metric.
C18_Original ==
    IndexReturned =>
        \A i \in DOMAIN call.trace :
            call.trace[i].needUpdate =>
                /\ \E j \in DOMAIN call.trace[i].writes :
                      /\ call.trace[i].writes[j].fn = "Search_AddMetric"
                      /\ call.trace[i].writes[j].field = call.mdp[i].Metric
                /\ call.mdp[i].Metric \in Registered

----------------------------------------------------------------------------
(* Properties of a failing Expand, checked under SpecExpand *)

\* C19 as stated: when Expand returns an error the tags of the query are what
\* they were before the call.
C19_Original ==
    (call.op = "Expand" /\ call.err # NoErr) => call.Tags = call.q.Tags

----------------------------------------------------------------------------
(* Properties of the lexer, checked under SpecLex *)

IsTerminal(it) == it.typ \in {itemEOF, itemError}

\* the items sent so far: those received and the one waiting in the channel
Emitted == lexer.out \o lexer.items

\* run has reached the nil state
Terminated == lexer.state = "nil"

\* a terminal item is the last item sent, and run ends after one
TerminalIsLast ==
    lexer.state # "none" =>
        /\ \A i \in DOMAIN Emitted : IsTerminal(Emitted[i]) => i = Len(Emitted)
        /\ Terminated => (lexer.out # <<>> /\ IsTerminal(lexer.out[Len(lexer.out)]))

\* C20: for every input, with the consumer calling nextItem, run reaches the
\* nil state, and the items sent end with one terminal item, itemEOF or
\* itemError, after which no item is sent.
C20_LexerTerminates ==
    /\ [](TerminalIsLast)
    /\ (lexer.state # "none") ~> Terminated

\* the lexer ended after an identifier, =, a string and itemEOF
C20_Witness ==
    /\ Terminated
    /\ Len(lexer.out) = 4
    /\ lexer.out[1].typ = itemIdentifier
    /\ lexer.out[2].typ = itemEqual
    /\ lexer.out[3].typ = itemString
    /\ lexer.out[4].typ = itemEOF

\* the lexer ended with itemError after it had sent other items
C20_WitnessError ==
    /\ Terminated
    /\ Len(lexer.out) >= 2
    /\ lexer.out[Len(lexer.out)].typ = itemError

====
